---- MODULE Spec2Model ----
(***************************************************************************)
(* A model of CmuxTerminalProcess (raw-socket variant): a terminal process *)
(* that is backed by a remote cmux session.  The session is created with   *)
(* POST /api/tabs, its I/O runs over an upgraded socket that carries       *)
(* WebSocket frames, and the class reports ready / data / exit events.     *)
(*                                                                         *)
(* The instance fields are state variables with the source's names.  Every *)
(* callback the code registers (HTTP response, upgrade, socket data,       *)
(* socket close) and every public method is one action.  Buffers are       *)
(* sequences of bytes (0..255), strings are sequences of UTF-16 code       *)
(* units.  An optional value (T | undefined) is a sequence of length 0     *)
(* or 1.                                                                   *)
(***************************************************************************)
EXTENDS Integers, Sequences, FiniteSets, TLC

(***************************************************************************)
(* Bounds of the model.                                                    *)
(***************************************************************************)
\* start() invocations per instance
MaxStarts == 2
\* 'data' callbacks delivered over all sockets
MaxChunks == 2
\* input() and resize() calls
MaxWrites == 2
\* shutdown / dispose / sendSignal calls
MaxTeardowns == 2

(***************************************************************************)
(* Byte helpers.                                                           *)
(***************************************************************************)
RECURSIVE BitXor(_, _, _)
\* a ^ b on the low n bits
BitXor(a, b, n) ==
    IF n = 0 THEN 0
    ELSE (((a % 2) + (b % 2)) % 2) + (2 * BitXor(a \div 2, b \div 2, n - 1))

\* payload[i] ^= maskKey[i % 4], i counted from 0
XorMask(payload, maskKey) ==
    [i \in 1..Len(payload) |-> BitXor(payload[i], maskKey[((i - 1) % 4) + 1], 8)]

\* the two bytes read low byte first
ReadUInt16LE(data, offset) == data[offset + 1] + (data[offset + 2] * 256)

\* Buffer.readUInt16BE(offset), offset counted from 0
ReadUInt16BE(data, offset) == (data[offset + 1] * 256) + data[offset + 2]

\* Number(Buffer.readBigUInt64BE(offset)).  A length with a non-zero byte among
\* the five high bytes is at least 2^24 and exceeds every buffer of the model:
\* it is reported as one more than the buffer length, which the parser treats
\* exactly like the true value (offset + payloadLength > data.length).
ReadBigUInt64BE(data, offset) ==
    IF \E i \in 1..5 : data[offset + i] # 0
    THEN Len(data) + 1
    ELSE (data[offset + 6] * 65536) + (data[offset + 7] * 256) + data[offset + 8]

(***************************************************************************)
(* UTF-8.  Buffer.toString('utf-8') and Buffer.from(s, 'utf-8') for code   *)
(* points below U+0800 (one- and two-byte sequences); every byte that does *)
(* not start such a sequence decodes to U+FFFD, which is what Node does for*)
(* a stray continuation byte or an overlong lead (0x80..0xC1) and for a    *)
(* lead whose continuation is missing.  The model's payloads stay below    *)
(* 0xE0, where this is exact.                                              *)
(***************************************************************************)
ReplacementChar == 65533

RECURSIVE Utf8DecodeFrom(_, _)
Utf8DecodeFrom(bytes, i) ==
    IF i > Len(bytes) THEN <<>>
    ELSE LET b == bytes[i] IN
         IF b < 128 THEN <<b>> \o Utf8DecodeFrom(bytes, i + 1)
         ELSE IF b >= 194 /\ b < 224 /\ i < Len(bytes)
                 /\ bytes[i + 1] >= 128 /\ bytes[i + 1] < 192
              THEN <<((b - 192) * 64) + (bytes[i + 1] - 128)>> \o Utf8DecodeFrom(bytes, i + 2)
              ELSE <<ReplacementChar>> \o Utf8DecodeFrom(bytes, i + 1)

\* payload.toString('utf-8')
Utf8Decode(bytes) ==
    IF \A i \in 1..Len(bytes) : bytes[i] < 128 THEN bytes ELSE Utf8DecodeFrom(bytes, 1)

RECURSIVE Utf8EncodeFrom(_, _)
Utf8EncodeFrom(str, i) ==
    IF i > Len(str) THEN <<>>
    ELSE LET c == str[i] IN
         IF c < 128 THEN <<c>> \o Utf8EncodeFrom(str, i + 1)
         ELSE IF c < 2048
              THEN <<192 + (c \div 64), 128 + (c % 64)>> \o Utf8EncodeFrom(str, i + 1)
              ELSE <<224 + (c \div 4096), 128 + ((c \div 64) % 64), 128 + (c % 64)>>
                   \o Utf8EncodeFrom(str, i + 1)

\* Buffer.from(data, 'utf-8')
Utf8Encode(str) ==
    IF \A i \in 1..Len(str) : str[i] < 128 THEN str ELSE Utf8EncodeFrom(str, 1)

(***************************************************************************)
(* _parseWebSocketFrames: the frames that lie completely inside `data`.    *)
(* `offset` counts from 0 as in the source; data[offset] there is          *)
(* data[offset + 1] here.                                                  *)
(***************************************************************************)
RECURSIVE ParseFromKeepingPartialPayload(_, _, _)
\* ParseFrom without the check of line 281: a frame whose payload is cut
\* short is returned with the bytes that are there
ParseFromKeepingPartialPayload(data, offset, frames) ==
    IF ~(offset < Len(data)) THEN frames
    ELSE IF offset + 2 > Len(data) THEN frames
    ELSE
      LET byte1  == data[offset + 1]
          byte2  == data[offset + 2]
          opcode == byte1 % 16
          masked == (byte2 \div 128) % 2 # 0
          len7   == byte2 % 128
          off1   == offset + 2
          extOk  == IF len7 = 126 THEN ~(off1 + 2 > Len(data))
                    ELSE IF len7 = 127 THEN ~(off1 + 8 > Len(data))
                    ELSE TRUE
          payloadLength == IF len7 = 126 THEN ReadUInt16BE(data, off1)
                           ELSE IF len7 = 127 THEN ReadBigUInt64BE(data, off1)
                           ELSE len7
          off2   == IF len7 = 126 THEN off1 + 2
                    ELSE IF len7 = 127 THEN off1 + 8
                    ELSE off1
          maskOk == masked => ~(off2 + 4 > Len(data))
          maskKey == SubSeq(data, off2 + 1, off2 + 4)
          off3   == IF masked THEN off2 + 4 ELSE off2
          end    == IF off3 + payloadLength > Len(data) THEN Len(data)
                    ELSE off3 + payloadLength
          raw    == SubSeq(data, off3 + 1, end)
          payload == IF masked THEN XorMask(raw, maskKey) ELSE raw
      IN IF ~extOk THEN frames
         ELSE IF ~maskOk THEN frames
         ELSE ParseFromKeepingPartialPayload(data, off3 + payloadLength,
                        Append(frames, [opcode |-> opcode, payload |-> payload]))

RECURSIVE ParseFrom(_, _, _)
ParseFrom(data, offset, frames) ==
    IF ~(offset < Len(data)) THEN frames
    ELSE IF offset + 2 > Len(data) THEN frames
    ELSE
      LET byte1  == data[offset + 1]
          byte2  == data[offset + 2]
          opcode == byte1 % 16
          masked == (byte2 \div 128) % 2 # 0
          len7   == byte2 % 128
          off1   == offset + 2
          \* the extended length: does it fit, its value, the offset after it
          extOk  == IF len7 = 126 THEN ~(off1 + 2 > Len(data))
                    ELSE IF len7 = 127 THEN ~(off1 + 8 > Len(data))
                    ELSE TRUE
          payloadLength == IF len7 = 126 THEN ReadUInt16BE(data, off1)
                           ELSE IF len7 = 127 THEN ReadBigUInt64BE(data, off1)
                           ELSE len7
          off2   == IF len7 = 126 THEN off1 + 2
                    ELSE IF len7 = 127 THEN off1 + 8
                    ELSE off1
          maskOk == masked => ~(off2 + 4 > Len(data))
          maskKey == SubSeq(data, off2 + 1, off2 + 4)
          off3   == IF masked THEN off2 + 4 ELSE off2
          raw    == SubSeq(data, off3 + 1, off3 + payloadLength)
          payload == IF masked THEN XorMask(raw, maskKey) ELSE raw
      IN IF ~extOk THEN frames
         ELSE IF ~maskOk THEN frames
         ELSE IF off3 + payloadLength > Len(data) THEN frames
         ELSE ParseFrom(data, off3 + payloadLength,
                        Append(frames, [opcode |-> opcode, payload |-> payload]))

ParseWebSocketFrames(data) == ParseFrom(data, 0, <<>>)

(***************************************************************************)
(* _createWebSocketFrame: a masked frame, text for a string argument and   *)
(* binary for a Buffer.  `mask` is crypto.randomBytes(4).                  *)
(***************************************************************************)
\* Buffer.writeUInt16BE / writeBigUInt64BE of a length below 2^24
UInt16BE(n) == <<(n \div 256) % 256, n % 256>>
BigUInt64BE(n) == <<0, 0, 0, 0, 0, (n \div 65536) % 256, (n \div 256) % 256, n % 256>>

TextOpcode  == 1
BinaryOpcode == 2
CloseOpcode == 8

\* CreateWebSocketFrame writing a length of 126 into the second byte
CreateWebSocketFrameDirectUpTo126(data, isString, mask) ==
    LET payload == IF isString THEN Utf8Encode(data) ELSE data
        opcode  == IF isString THEN TextOpcode ELSE BinaryOpcode
        maskedPayload == XorMask(payload, mask)
        header == IF Len(payload) < 127
                  THEN <<128 + opcode, 128 + Len(payload)>> \o mask
                  ELSE IF Len(payload) < 65536
                  THEN <<128 + opcode, 128 + 126>> \o UInt16BE(Len(payload)) \o mask
                  ELSE <<128 + opcode, 128 + 127>> \o BigUInt64BE(Len(payload)) \o mask
    IN header \o maskedPayload

CreateWebSocketFrame(data, isString, mask) ==
    LET payload == IF isString THEN Utf8Encode(data) ELSE data
        opcode  == IF isString THEN TextOpcode ELSE BinaryOpcode
        maskedPayload == XorMask(payload, mask)
        header == IF Len(payload) < 126
                  THEN <<128 + opcode, 128 + Len(payload)>> \o mask
                  ELSE IF Len(payload) < 65536
                  THEN <<128 + opcode, 128 + 126>> \o UInt16BE(Len(payload)) \o mask
                  ELSE <<128 + opcode, 128 + 127>> \o BigUInt64BE(Len(payload)) \o mask
    IN header \o maskedPayload

(***************************************************************************)
(* _hashSessionId: hash = ((hash << 5) - hash) + char, truncated to a      *)
(* signed 32-bit integer after every character, then Math.abs.  The 32-bit *)
(* value is kept as two 16-bit halves so that no intermediate result       *)
(* leaves the range of TLC integers.                                       *)
(***************************************************************************)
RECURSIVE HashFrom(_, _, _, _)
\* one round of the loop: hash << 5 on 32 bits (shiftHi, shiftLo), minus
\* hash, plus the character code, and the low 32 bits of the result
HashFrom(sessionId, i, hi, lo) ==
    IF i > Len(sessionId) THEN <<hi, lo>>
    ELSE LET shiftLo == (lo * 32) % 65536
             shiftHi == ((hi * 32) + ((lo * 32) \div 65536)) % 65536
             l == (shiftLo - lo) + sessionId[i]
             h == (shiftHi - hi) + (l \div 65536)
         IN HashFrom(sessionId, i + 1, h % 65536, l % 65536)

\* the signed 32-bit value of the halves
ToInt32(hi, lo) == IF hi >= 32768 THEN ((hi - 65536) * 65536) + lo ELSE (hi * 65536) + lo

\* _hashSessionId returning the hash as it is, without Math.abs
HashSessionIdWithoutAbs(sessionId) ==
    LET w == HashFrom(sessionId, 1, 0, 0)
    IN ToInt32(w[1], w[2])

HashSessionId(sessionId) ==
    LET w == HashFrom(sessionId, 1, 0, 0)
        hash == ToInt32(w[1], w[2])
    IN IF hash < 0 THEN 0 - hash ELSE hash

(***************************************************************************)
(* The environment: what the server may answer and send.                   *)
(***************************************************************************)
\* the id the constructor may be given (existingSessionId), "s1"
ExistingId == <<115, 49>>
\* the id the server hands out, "ab"
CreatedId == <<97, 98>>
\* the cwd the constructor is given
InitialCwd == "/home/user"

\* JSON.parse on the bodies the model's server sends: ok = FALSE when it throws;
\* id is the parsed object's id property (<<>> when the object has none)
JsonParse(body) ==
    CASE body = "{\"id\":\"ab\",\"ws_url\":\"/ws/ab\"}" -> [ok |-> TRUE, id |-> CreatedId]
      [] body = "{}" -> [ok |-> TRUE, id |-> <<>>]
      [] OTHER -> [ok |-> FALSE, id |-> <<>>]

\* answers to POST /api/tabs
CreateAnswers ==
    { [status |-> 200, body |-> "{\"id\":\"ab\",\"ws_url\":\"/ws/ab\"}"],
      [status |-> 200, body |-> "{}"],
      [status |-> 200, body |-> "boom"],
      [status |-> 500, body |-> "boom"],
      [status |-> 201, body |-> "{\"id\":\"ab\",\"ws_url\":\"/ws/ab\"}"] }

\* an unmasked frame as a server sends it (payloads shorter than 126 bytes)
ServerFrame(opcode, payload) == <<128 + opcode, Len(payload)>> \o payload

\* the chunks a 'data' callback may carry:
\*   text "a", binary "bc", and one byte of a next frame
\*   close, then text "d"
\*   ping, continuation "e", masked text "f", close, and a text frame whose
\*   payload is cut short
Chunks ==
    { ServerFrame(TextOpcode, <<97>>) \o ServerFrame(BinaryOpcode, <<98, 99>>) \o <<129>>,
      ServerFrame(CloseOpcode, <<>>) \o ServerFrame(TextOpcode, <<100>>),
      ServerFrame(9, <<>>) \o ServerFrame(0, <<101>>) \o <<129, 129, 1, 2, 3, 4, 103>>
        \o ServerFrame(CloseOpcode, <<>>) \o <<129, 5, 103>> }

\* chunks whose frames carry the other opcodes:
\*   ping with payload "p"
\*   pong, then continuation "e"
\*   ping, text "abcd", pong
\*   a frame of the reserved opcode 3, then close
\*   text "ab"
OpcodeChunks ==
    { ServerFrame(9, <<112>>),
      ServerFrame(10, <<>>) \o ServerFrame(0, <<101>>),
      ServerFrame(9, <<>>) \o ServerFrame(TextOpcode, <<97, 98, 99, 100>>)
        \o ServerFrame(10, <<>>),
      ServerFrame(3, <<120>>) \o ServerFrame(CloseOpcode, <<>>),
      ServerFrame(TextOpcode, <<97, 98>>) }

\* the arguments of input and resize, and the mask keys crypto.randomBytes draws
InputData == { <<104, 105>> }
ResizeArgs == { [cols |-> 100, rows |-> 30] }
MaskKeys == { <<1, 2, 3, 4>>, <<255, 0, 170, 85>> }
\* the key drawn for the frames input and resize write: no handler reads a
\* written frame, so the key is varied where the frame itself is examined
WriteMaskKeys == { <<255, 0, 170, 85>> }
Signals == { "SIGTERM", "SIGKILL", "SIGINT" }

\* FlowControlConstants.HighWatermarkChars / LowWatermarkChars: supplied by the
\* embedding application (HighWatermark > LowWatermark); scaled down here
HighWatermarkChars == 3
LowWatermarkChars == 1

(***************************************************************************)
(* State.                                                                  *)
(***************************************************************************)
VARIABLES
    cmuxSessionId,      \* _cmuxSessionId: code units, <<>> when undefined
    socket,             \* _socket: an index into sockets, 0 when undefined
    exitCode,           \* _exitCode: <<>> when undefined, else <<code>>
    cols, rows,         \* _cols, _rows
    isPtyPaused,        \* _isPtyPaused
    unacknowledgedCharCount,  \* _unacknowledgedCharCount
    isDisposed,         \* _store.isDisposed
    starts,             \* the start() invocations: position and result of each
    sockets,            \* the sockets the upgrades produced
    deletes,            \* the DELETE requests issued, in order
    events,             \* every Emitter.fire call, in order
    received,           \* every chunk handed to a 'data' callback, in order
    calls               \* how many calls of each kind were made: chunks
                        \* delivered, teardowns, input and resize calls that
                        \* wrote (writes) or returned at their guard, and
                        \* why the last of these returned (lastDrop), and
                        \* the last acknowledgeDataEvent call (lastAck): its
                        \* argument and the fields it found
VARIABLE
    codec               \* one argument of a pure function with its result:
                        \* an argument of _createWebSocketFrame (data,
                        \* isString, mask) with the frame built from it and
                        \* the frames _parseWebSocketFrames makes of that; a
                        \* chunk that ends inside a frame (frame, and the
                        \* complete frames and the tail it was made of)
                        \* with the frames decoded; or a session id (data)
                        \* with the pseudo-PID _hashSessionId gives it

vars == <<cmuxSessionId, socket, exitCode, cols, rows, isPtyPaused,
          unacknowledgedCharCount, isDisposed, starts, sockets, deletes, events,
          received, calls, codec>>

\* (an event record has the same fields whatever its type; the ones a type
\* does not use are empty)
\*   type  "ready" | "data" | "exit"
\*   text  the data event's text
\*   code  the exit event's code, <<>> for the others
\*   pid, cwd  the ready event's payload
\*   by    what fired it: "start", "frame", "socketClose", "shutdown"
\*   sock  the socket whose callback fired it, 0 for none
\*   chunk the number of the chunk whose callback fired it, 0 for none
\*   idx   the index of the frame that caused it among the chunk's frames
\*   count, paused  the flow-control fields when it was fired
\*   live  FALSE when the store (and so the emitter) was already disposed
Event(type, by, sock, chunk, idx, text, code, pid, count, paused, disposed) ==
    [type |-> type, by |-> by, sock |-> sock, chunk |-> chunk, idx |-> idx, text |-> text,
     code |-> code, pid |-> pid, cwd |-> IF type = "ready" THEN InitialCwd ELSE "",
     count |-> count, paused |-> paused, live |-> ~disposed]

\* no frame is being built
CodecIdle == [stage |-> "idle", data |-> <<>>, isString |-> TRUE, mask |-> <<>>,
              frame |-> <<>>, frames |-> <<>>]

Init ==
    /\ codec = CodecIdle
    /\ cmuxSessionId \in { <<>>, ExistingId }
    /\ socket = 0
    /\ exitCode = <<>>
    /\ cols = 80
    /\ rows = 24
    /\ isPtyPaused = FALSE
    /\ unacknowledgedCharCount = 0
    /\ isDisposed = FALSE
    /\ starts = <<>>
    /\ sockets = <<>>
    /\ deletes = <<>>
    /\ events = <<>>
    /\ received = <<>>
    /\ calls = [chunks |-> 0, writes |-> 0, inputsDropped |-> 0, resizesDropped |-> 0,
                lastDrop |-> "", teardowns |-> 0, lastAck |-> <<>>]

(***************************************************************************)
(* start(): lines 91-119.  A start record holds the invocation's position  *)
(*   pc     "creating"   awaiting _createCmuxSession                       *)
(*          "connecting" awaiting _connectWebSocket                        *)
(*          "done"       returned                                          *)
(*   posted whether it issued POST /api/tabs                               *)
(*   wsId   the session id in the path of its upgrade request              *)
(*   req    its upgrade request: "none", "pending", "answered"             *)
(*   answer the create response it received, <<>> when none                *)
(*   result what it returned                                               *)
(***************************************************************************)
NoMessage == [text |-> "", status |-> <<>>, data |-> <<>>]
Pending == [kind |-> "pending", message |-> NoMessage]
\* return undefined
Success == [kind |-> "success", message |-> NoMessage]
\* return { message: `Failed to create cmux session: ${err.message}` }: the
\* error's message is kept in its parts, the template's text and what it
\* interpolates
Failure(text, status, data) ==
    [kind |-> "failure", message |-> [text |-> text, status |-> status, data |-> data]]

\* the promise executor of _createCmuxSession: the POST request is on its way
AwaitCreate == [pc |-> "creating", posted |-> TRUE, wsId |-> <<>>, req |-> "none",
                answer |-> <<>>, result |-> Pending]

\* _connectWebSocket up to its promise, entered from start record `st`
ConnectWebSocket(st, sessionId) ==
    IF sessionId = <<>>
    THEN [st EXCEPT !.pc = "done", !.result = Failure("No session ID", <<>>, <<>>)]
    ELSE [st EXCEPT !.pc = "connecting", !.wsId = sessionId, !.req = "pending"]

\* Start creating a session whether or not the instance has an id
StartAlwaysCreating ==
    /\ Len(starts) < MaxStarts
    /\ starts' = Append(starts, AwaitCreate)
    /\ UNCHANGED <<cmuxSessionId, socket, exitCode, cols, rows, isPtyPaused,
                   unacknowledgedCharCount, isDisposed, sockets, deletes, events,
                   received, calls, codec>>

Start ==
    /\ Len(starts) < MaxStarts
    /\ starts' = Append(starts,
          IF cmuxSessionId # <<>>
          THEN ConnectWebSocket([pc |-> "idle", posted |-> FALSE, wsId |-> <<>>,
                                 req |-> "none", answer |-> <<>>, result |-> Pending],
                                cmuxSessionId)
          ELSE AwaitCreate)
    /\ UNCHANGED <<cmuxSessionId, socket, exitCode, cols, rows, isPtyPaused,
                   unacknowledgedCharCount, isDisposed, sockets, deletes, events,
                   received, calls, codec>>

\* CreateOutcome without the status check of line 153: whatever parses is
\* taken for the session
CreateOutcomeStatusUnchecked(status, body) ==
    IF JsonParse(body).ok
    THEN [resolved |-> TRUE, id |-> JsonParse(body).id, error |-> NoMessage]
    ELSE [resolved |-> FALSE, id |-> <<>>,
          error |-> [text |-> "Invalid JSON response", status |-> <<>>,
                     data |-> <<body>>]]

\* what the 'end' handler of the create response settles the promise with
\* (lines 152-162): resolved with the parsed body, or rejected
CreateOutcome(status, body) ==
    IF status = 200
    THEN IF JsonParse(body).ok
         THEN [resolved |-> TRUE, id |-> JsonParse(body).id, error |-> NoMessage]
         ELSE [resolved |-> FALSE, id |-> <<>>,
               error |-> [text |-> "Invalid JSON response", status |-> <<>>,
                          data |-> <<body>>]]
    ELSE [resolved |-> FALSE, id |-> <<>>,
          error |-> [text |-> "HTTP", status |-> <<status>>, data |-> <<body>>]]

\* the create response ends; start resumes after its first await
CreateResponse(k, answer) ==
    /\ starts[k].pc = "creating"
    /\ LET out == CreateOutcome(answer.status, answer.body) IN
       IF out.resolved
       THEN /\ cmuxSessionId' = out.id
            /\ starts' = [starts EXCEPT
                            ![k] = ConnectWebSocket([@ EXCEPT !.answer = <<answer>>], out.id)]
       ELSE /\ cmuxSessionId' = cmuxSessionId
            /\ starts' = [starts EXCEPT ![k].pc = "done", ![k].answer = <<answer>>,
                            ![k].result = [kind |-> "failure", message |-> out.error]]
    /\ UNCHANGED <<socket, exitCode, cols, rows, isPtyPaused,
                   unacknowledgedCharCount, isDisposed, sockets, deletes, events,
                   received, calls, codec>>

\* req.on('error', reject) of the create request
CreateError(k) ==
    /\ starts[k].pc = "creating"
    /\ starts' = [starts EXCEPT ![k].pc = "done",
                     ![k].result = Failure("ECONNREFUSED", <<>>, <<>>)]
    /\ UNCHANGED <<cmuxSessionId, socket, exitCode, cols, rows, isPtyPaused,
                   unacknowledgedCharCount, isDisposed, sockets, deletes, events,
                   received, calls, codec>>

\* a socket as the 'upgrade' callback receives it
\*   state   "open", "destroyed" (destroy() was called, 'close' not yet
\*           emitted), "errored" (the transport failed and destroyed the
\*           socket, 'error' was emitted, 'close' not yet), "closed"
\*           ('close' was emitted)
\*   written the buffers given to write(), in order
NewSocket == [state |-> "open", written |-> <<>>]

\* socket.destroyed
Destroyed(s) == sockets[s].state # "open"

\* the 'upgrade' callback (lines 198-234), then start's continuation after
\* its second await (lines 106-114)
UpgradeAccepted(k) ==
    /\ starts[k].pc = "connecting"
    /\ starts[k].req = "pending"
    /\ sockets' = Append(sockets, NewSocket)
    /\ socket' = Len(sockets) + 1
    /\ events' = Append(events,
          Event("ready", "start", 0, 0, 0, <<>>, <<>>, HashSessionId(cmuxSessionId),
                unacknowledgedCharCount, isPtyPaused, isDisposed))
    /\ starts' = [starts EXCEPT ![k].pc = "done", ![k].req = "answered",
                                ![k].result = Success]
    /\ UNCHANGED <<cmuxSessionId, exitCode, cols, rows, isPtyPaused,
                   unacknowledgedCharCount, isDisposed, deletes, received, calls,
                   codec>>

\* UpgradeError with a close handler that is already registered when the
\* handshake fails and reports the failure as an exit as well
UpgradeErrorThenExit(k) ==
    /\ starts[k].pc = "connecting"
    /\ starts[k].req = "pending"
    /\ starts' = [starts EXCEPT ![k].pc = "done", ![k].req = "answered",
                     ![k].result = Failure("ECONNREFUSED", <<>>, <<>>)]
    /\ exitCode' = <<1>>
    /\ events' = Append(events,
          Event("exit", "socketClose", 0, 0, 0, <<>>, <<1>>, 0,
                unacknowledgedCharCount, isPtyPaused, isDisposed))
    /\ UNCHANGED <<cmuxSessionId, socket, cols, rows, isPtyPaused,
                   unacknowledgedCharCount, isDisposed, sockets, deletes,
                   received, calls, codec>>

\* req.on('error', reject) of the upgrade request
UpgradeError(k) ==
    /\ starts[k].pc = "connecting"
    /\ starts[k].req = "pending"
    /\ starts' = [starts EXCEPT ![k].pc = "done", ![k].req = "answered",
                     ![k].result = Failure("ECONNREFUSED", <<>>, <<>>)]
    /\ UNCHANGED <<cmuxSessionId, socket, exitCode, cols, rows, isPtyPaused,
                   unacknowledgedCharCount, isDisposed, sockets, deletes, events,
                   received, calls, codec>>

\* the server answers the upgrade request with an ordinary response: the
\* request emits 'response', for which line 196-237 register no listener, so
\* the promise is neither resolved nor rejected
UpgradeRefused(k) ==
    /\ starts[k].pc = "connecting"
    /\ starts[k].req = "pending"
    /\ starts' = [starts EXCEPT ![k].req = "answered"]
    /\ UNCHANGED <<cmuxSessionId, socket, exitCode, cols, rows, isPtyPaused,
                   unacknowledgedCharCount, isDisposed, sockets, deletes, events,
                   received, calls, codec>>

(***************************************************************************)
(* The socket's 'data' handler: lines 201-221.  The loop body is           *)
(* HandleFrame; `st` holds the fields the loop reads and writes.           *)
(***************************************************************************)
\* HandleFrame pausing as soon as the count reaches the high watermark
HandleFramePausingAtWatermark(frame, st, s, n, i) ==
    IF frame.opcode = TextOpcode \/ frame.opcode = BinaryOpcode
    THEN LET text   == Utf8Decode(frame.payload)
             count  == st.unacknowledgedCharCount + Len(text)
             paused == IF ~st.isPtyPaused /\ count >= HighWatermarkChars
                       THEN TRUE ELSE st.isPtyPaused
         IN [st EXCEPT !.unacknowledgedCharCount = count,
                       !.isPtyPaused = paused,
                       !.events = Append(@, Event("data", "frame", s, n, i, text, <<>>, 0,
                                                  count, paused, isDisposed))]
    ELSE IF frame.opcode = CloseOpcode
    THEN [st EXCEPT !.exitCode = <<0>>,
                    !.events = Append(@, Event("exit", "frame", s, n, i, <<>>, <<0>>, 0,
                                               st.unacknowledgedCharCount,
                                               st.isPtyPaused, isDisposed))]
    ELSE st

\* HandleFrame firing the data event before it updates the flow control
HandleFrameFiringFirst(frame, st, s, n, i) ==
    IF frame.opcode = TextOpcode \/ frame.opcode = BinaryOpcode
    THEN LET text   == Utf8Decode(frame.payload)
             count  == st.unacknowledgedCharCount + Len(text)
             paused == IF ~st.isPtyPaused /\ count > HighWatermarkChars
                       THEN TRUE ELSE st.isPtyPaused
         IN [st EXCEPT !.unacknowledgedCharCount = count,
                       !.isPtyPaused = paused,
                       !.events = Append(@, Event("data", "frame", s, n, i, text, <<>>, 0,
                                                  st.unacknowledgedCharCount,
                                                  st.isPtyPaused, isDisposed))]
    ELSE IF frame.opcode = CloseOpcode
    THEN [st EXCEPT !.exitCode = <<0>>,
                    !.events = Append(@, Event("exit", "frame", s, n, i, <<>>, <<0>>, 0,
                                               st.unacknowledgedCharCount,
                                               st.isPtyPaused, isDisposed))]
    ELSE st

\* HandleFrame taking a continuation frame for a data frame
HandleFrameTreatingContinuationAsData(frame, st, s, n, i) ==
    IF frame.opcode = TextOpcode \/ frame.opcode = BinaryOpcode \/ frame.opcode = 0
    THEN LET text   == Utf8Decode(frame.payload)
             count  == st.unacknowledgedCharCount + Len(text)
             paused == IF ~st.isPtyPaused /\ count > HighWatermarkChars
                       THEN TRUE ELSE st.isPtyPaused
         IN [st EXCEPT !.unacknowledgedCharCount = count,
                       !.isPtyPaused = paused,
                       !.events = Append(@, Event("data", "frame", s, n, i, text, <<>>, 0,
                                                  count, paused, isDisposed))]
    ELSE IF frame.opcode = CloseOpcode
    THEN [st EXCEPT !.exitCode = <<0>>,
                    !.events = Append(@, Event("exit", "frame", s, n, i, <<>>, <<0>>, 0,
                                               st.unacknowledgedCharCount,
                                               st.isPtyPaused, isDisposed))]
    ELSE st

HandleFrame(frame, st, s, n, i) ==
    IF frame.opcode = TextOpcode \/ frame.opcode = BinaryOpcode
    THEN LET text   == Utf8Decode(frame.payload)
             count  == st.unacknowledgedCharCount + Len(text)
             paused == IF ~st.isPtyPaused /\ count > HighWatermarkChars
                       THEN TRUE ELSE st.isPtyPaused
         IN [st EXCEPT !.unacknowledgedCharCount = count,
                       !.isPtyPaused = paused,
                       !.events = Append(@, Event("data", "frame", s, n, i, text, <<>>, 0,
                                                  count, paused, isDisposed))]
    ELSE IF frame.opcode = CloseOpcode
    THEN [st EXCEPT !.exitCode = <<0>>,
                    !.events = Append(@, Event("exit", "frame", s, n, i, <<>>, <<0>>, 0,
                                               st.unacknowledgedCharCount,
                                               st.isPtyPaused, isDisposed))]
    ELSE st

RECURSIVE HandleFramesBackwards(_, _, _, _, _)
\* HandleFrames walking the frames from the last to the first
HandleFramesBackwards(frames, i, st, s, n) ==
    IF i > Len(frames) THEN st
    ELSE HandleFramesBackwards(frames, i + 1,
            HandleFrame(frames[Len(frames) + 1 - i], st, s, n, Len(frames) + 1 - i), s, n)

RECURSIVE HandleFrames(_, _, _, _, _)
\* for (const frame of frames) { ... }
HandleFrames(frames, i, st, s, n) ==
    IF i > Len(frames) THEN st
    ELSE HandleFrames(frames, i + 1, HandleFrame(frames[i], st, s, n, i), s, n)

\* a chunk arrives on socket s
SocketData(s, chunk) ==
    /\ s \in 1..Len(sockets)
    /\ sockets[s].state = "open"
    /\ calls.chunks < MaxChunks
    /\ LET n  == Len(received) + 1
           st == HandleFrames(ParseWebSocketFrames(chunk), 1,
                    [unacknowledgedCharCount |-> unacknowledgedCharCount,
                     isPtyPaused |-> isPtyPaused, exitCode |-> exitCode,
                     events |-> events], s, n)
       IN /\ unacknowledgedCharCount' = st.unacknowledgedCharCount
          /\ isPtyPaused' = st.isPtyPaused
          /\ exitCode' = st.exitCode
          /\ events' = st.events
    /\ received' = Append(received, [sock |-> s, chunk |-> chunk])
    /\ calls' = [calls EXCEPT !.chunks = @ + 1]
    /\ UNCHANGED <<cmuxSessionId, socket, cols, rows, isDisposed, starts, sockets,
                   deletes, codec>>

\* the socket's 'close' handler: lines 223-227.  The socket emits 'close'
\* once, after the peer closed or reset the connection or after destroy().
SocketClose(s) ==
    /\ s \in 1..Len(sockets)
    /\ sockets[s].state \in {"open", "destroyed", "errored"}
    /\ sockets' = [sockets EXCEPT ![s].state = "closed"]
    /\ exitCode' = IF exitCode = <<>> THEN <<0>> ELSE exitCode
    /\ events' = Append(events,
          Event("exit", "socketClose", s, 0, 0, <<>>, exitCode', 0,
                unacknowledgedCharCount, isPtyPaused, isDisposed))
    /\ UNCHANGED <<cmuxSessionId, socket, cols, rows, isPtyPaused,
                   unacknowledgedCharCount, isDisposed, starts, deletes, received,
                   calls, codec>>

\* SocketError with a handler that treats the error as the end of the process
SocketErrorThenExit(s) ==
    /\ s \in 1..Len(sockets)
    /\ sockets[s].state = "open"
    /\ sockets' = [sockets EXCEPT ![s].state = "errored"]
    /\ exitCode' = <<1>>
    /\ events' = Append(events,
          Event("exit", "socketError", s, 0, 0, <<>>, <<1>>, 0,
                unacknowledgedCharCount, isPtyPaused, isDisposed))
    /\ UNCHANGED <<cmuxSessionId, socket, cols, rows, isPtyPaused,
                   unacknowledgedCharCount, isDisposed, starts, deletes,
                   received, calls, codec>>

\* the socket's 'error' handler: lines 229-231.  A net.Socket emits 'error'
\* when the transport fails; it is destroyed by then and emits 'close' next.
\* The handler only logs.
SocketError(s) ==
    /\ s \in 1..Len(sockets)
    /\ sockets[s].state = "open"
    /\ sockets' = [sockets EXCEPT ![s].state = "errored"]
    /\ UNCHANGED <<cmuxSessionId, socket, exitCode, cols, rows, isPtyPaused,
                   unacknowledgedCharCount, isDisposed, starts, deletes, events,
                   received, calls, codec>>

(***************************************************************************)
(* Teardown: _closeSocket (333-338), shutdown (340-353),                   *)
(* _deleteCmuxSession (355-379), the dispose hook (86-88), sendSignal      *)
(* (390-397).                                                              *)
(***************************************************************************)
\* _closeSocket: the sockets after it
CloseSocket ==
    IF socket # 0
    THEN [sockets EXCEPT ![socket].state =
             IF @ = "open" THEN "destroyed" ELSE @]
    ELSE sockets

\* _deleteCmuxSession up to its promise: the DELETE requests after it.  A
\* request is recorded with
\*   id      the session id in its path
\*   socket  this._socket when it was issued, 0 when undefined
\*   open    whether that socket was still open then
\*   status  "pending", "resolved" or "rejected"
DeleteCmuxSession ==
    IF cmuxSessionId = <<>> THEN deletes
    ELSE Append(deletes, [id |-> cmuxSessionId, socket |-> socket,
                          open |-> socket # 0 /\ sockets[socket].state = "open",
                          status |-> "pending"])

\* this._exitCode || 0
ExitCodeOrZero == IF exitCode = <<>> THEN <<0>> ELSE IF exitCode[1] = 0 THEN <<0>> ELSE exitCode

\* ShutdownBody with a _closeSocket that leaves this._socket set
ShutdownBodyKeepingReference(immediate) ==
    /\ deletes' = IF immediate THEN DeleteCmuxSession ELSE deletes
    /\ sockets' = CloseSocket
    /\ socket' = socket
    /\ events' = Append(events,
          Event("exit", "shutdown", 0, 0, 0, <<>>, ExitCodeOrZero, 0,
                unacknowledgedCharCount, isPtyPaused, isDisposed))
    /\ isDisposed' = TRUE

\* ShutdownBody closing the socket before it issues the DELETE request
ShutdownBodyClosingFirst(immediate) ==
    /\ deletes' = IF immediate /\ cmuxSessionId # <<>>
                  THEN Append(deletes, [id |-> cmuxSessionId, socket |-> 0, open |-> FALSE,
                                        status |-> "pending"])
                  ELSE deletes
    /\ sockets' = CloseSocket
    /\ socket' = 0
    /\ events' = Append(events,
          Event("exit", "shutdown", 0, 0, 0, <<>>, ExitCodeOrZero, 0,
                unacknowledgedCharCount, isPtyPaused, isDisposed))
    /\ isDisposed' = TRUE

\* the body of shutdown(immediate)
ShutdownBody(immediate) ==
    /\ deletes' = IF immediate THEN DeleteCmuxSession ELSE deletes
    /\ sockets' = CloseSocket
    /\ socket' = 0
    /\ events' = Append(events,
          Event("exit", "shutdown", 0, 0, 0, <<>>, ExitCodeOrZero, 0,
                unacknowledgedCharCount, isPtyPaused, isDisposed))
    /\ isDisposed' = TRUE

Shutdown(immediate) ==
    /\ calls.teardowns < MaxTeardowns
    /\ ShutdownBody(immediate)
    /\ calls' = [calls EXCEPT !.teardowns = @ + 1]
    /\ UNCHANGED <<cmuxSessionId, exitCode, cols, rows, isPtyPaused,
                   unacknowledgedCharCount, starts, received, codec>>

\* dispose(): the store runs the registered hook, which is _closeSocket; a
\* second dispose() does nothing
Dispose ==
    /\ IF isDisposed
       THEN UNCHANGED <<sockets, socket, isDisposed, calls>>
       ELSE /\ calls.teardowns < MaxTeardowns
            /\ sockets' = CloseSocket
            /\ socket' = 0
            /\ isDisposed' = TRUE
            /\ calls' = [calls EXCEPT !.teardowns = @ + 1]
    /\ UNCHANGED <<cmuxSessionId, exitCode, cols, rows, isPtyPaused,
                   unacknowledgedCharCount, starts, deletes, events, received,
                   codec>>

SendSignal(signal) ==
    /\ IF signal = "SIGTERM" \/ signal = "SIGKILL"
       THEN /\ calls.teardowns < MaxTeardowns
            /\ calls' = [calls EXCEPT !.teardowns = @ + 1]
            /\ ShutdownBody(TRUE)
       ELSE UNCHANGED <<deletes, sockets, socket, events, isDisposed, calls>>
    /\ UNCHANGED <<cmuxSessionId, exitCode, cols, rows, isPtyPaused,
                   unacknowledgedCharCount, starts, received, codec>>

\* the statuses the server answers a DELETE request with
DeleteStatuses == { 204, 200, 404 }

\* the response callback of a DELETE request (lines 364-373): the promise
\* is resolved for 204 and 200 and rejected otherwise; the rejection reaches
\* the catch of shutdown, which logs it
DeleteResponse(d, status) ==
    /\ d \in 1..Len(deletes)
    /\ deletes[d].status = "pending"
    /\ deletes' = [deletes EXCEPT ![d].status =
                      IF status = 204 \/ status = 200 THEN "resolved" ELSE "rejected"]
    /\ UNCHANGED <<cmuxSessionId, socket, exitCode, cols, rows, isPtyPaused,
                   unacknowledgedCharCount, isDisposed, starts, sockets, events,
                   received, calls, codec>>

\* req.on('error', reject) of a DELETE request
DeleteError(d) ==
    /\ d \in 1..Len(deletes)
    /\ deletes[d].status = "pending"
    /\ deletes' = [deletes EXCEPT ![d].status = "rejected"]
    /\ UNCHANGED <<cmuxSessionId, socket, exitCode, cols, rows, isPtyPaused,
                   unacknowledgedCharCount, isDisposed, starts, sockets, events,
                   received, calls, codec>>

(***************************************************************************)
(* input (381-388) and resize (422-438).                                   *)
(***************************************************************************)
\* the guard without its socket.destroyed test
NotWritableIgnoringDestroyed == isDisposed \/ socket = 0

\* the guard without its isDisposed test
NotWritableIgnoringDisposed == socket = 0 \/ sockets[socket].state # "open"

\* the guard both share:
\* this._store.isDisposed || !this._socket || this._socket.destroyed
NotWritable == isDisposed \/ socket = 0 \/ Destroyed(socket)

\* the disjunct of the guard that makes the call return
DropReason ==
    IF isDisposed THEN "disposed" ELSE IF socket = 0 THEN "noSocket" ELSE "destroyed"

RECURSIVE Digits(_)
\* the decimal digits of a non-negative integer, as code units
Digits(n) == IF n < 10 THEN <<48 + n>> ELSE Digits(n \div 10) \o <<48 + (n % 10)>>

\* JSON.stringify({ type: 'resize', cols, rows }):
\* {"type":"resize","cols":<cols>,"rows":<rows>}
ResizeMessage(c, r) ==
    <<123, 34, 116, 121, 112, 101, 34, 58, 34, 114, 101, 115, 105, 122, 101, 34, 44,
      34, 99, 111, 108, 115, 34, 58>> \o Digits(c)
    \o <<44, 34, 114, 111, 119, 115, 34, 58>> \o Digits(r) \o <<125>>

\* input and resize calls made so far
WriteCalls == calls.writes + calls.inputsDropped + calls.resizesDropped

Input(data, mask) ==
    /\ WriteCalls < MaxWrites
    /\ IF NotWritable
       THEN /\ calls' = [calls EXCEPT !.inputsDropped = @ + 1, !.lastDrop = DropReason]
            /\ UNCHANGED sockets
       ELSE /\ calls' = [calls EXCEPT !.writes = @ + 1]
            /\ sockets' = [sockets EXCEPT ![socket].written =
                              Append(@, CreateWebSocketFrame(data, TRUE, mask))]
    /\ UNCHANGED <<cmuxSessionId, socket, exitCode, cols, rows, isPtyPaused,
                   unacknowledgedCharCount, isDisposed, starts, deletes, events,
                   received, codec>>

\* Resize recording the size before the guard
ResizeAssigningFirst(c, r, mask) ==
    /\ WriteCalls < MaxWrites
    /\ cols' = c
    /\ rows' = r
    /\ IF NotWritable
       THEN /\ calls' = [calls EXCEPT !.resizesDropped = @ + 1, !.lastDrop = DropReason]
            /\ UNCHANGED sockets
       ELSE /\ calls' = [calls EXCEPT !.writes = @ + 1]
            /\ sockets' = [sockets EXCEPT ![socket].written =
                              Append(@, CreateWebSocketFrame(ResizeMessage(c, r), TRUE, mask))]
    /\ UNCHANGED <<cmuxSessionId, socket, exitCode, isPtyPaused,
                   unacknowledgedCharCount, isDisposed, starts, deletes, events,
                   received, codec>>

Resize(c, r, mask) ==
    /\ WriteCalls < MaxWrites
    /\ IF NotWritable
       THEN /\ calls' = [calls EXCEPT !.resizesDropped = @ + 1, !.lastDrop = DropReason]
            /\ UNCHANGED <<cols, rows, sockets>>
       ELSE /\ calls' = [calls EXCEPT !.writes = @ + 1]
            /\ cols' = c
            /\ rows' = r
            /\ sockets' = [sockets EXCEPT ![socket].written =
                              Append(@, CreateWebSocketFrame(ResizeMessage(c, r), TRUE, mask))]
    /\ UNCHANGED <<cmuxSessionId, socket, exitCode, isPtyPaused,
                   unacknowledgedCharCount, isDisposed, starts, deletes, events,
                   received, codec>>

(***************************************************************************)
(* Flow control: acknowledgeDataEvent (445-452) and                        *)
(* clearUnacknowledgedChars (454-458).  Neither has a guard: both run      *)
(* before start, while open and after disposal alike.                      *)
(***************************************************************************)
\* the charCount arguments of acknowledgeDataEvent
AckCounts == { 0, 1, 2, 7 }

Max(a, b) == IF a >= b THEN a ELSE b

\* acknowledgeDataEvent without Math.max
AcknowledgeWithoutClamp(charCount) ==
    /\ unacknowledgedCharCount' = unacknowledgedCharCount - charCount
    /\ isPtyPaused' = IF isPtyPaused /\ unacknowledgedCharCount' < LowWatermarkChars
                      THEN FALSE ELSE isPtyPaused
    /\ calls' = [calls EXCEPT !.lastAck = <<[charCount |-> charCount,
                                             before |-> unacknowledgedCharCount,
                                             paused |-> isPtyPaused]>>]
    /\ UNCHANGED <<cmuxSessionId, socket, exitCode, cols, rows, isDisposed, starts,
                   sockets, deletes, events, received, codec>>

\* acknowledgeDataEvent without the resume of lines 448-451
AcknowledgeNeverResuming(charCount) ==
    /\ unacknowledgedCharCount' = Max(unacknowledgedCharCount - charCount, 0)
    /\ isPtyPaused' = isPtyPaused
    /\ calls' = [calls EXCEPT !.lastAck = <<[charCount |-> charCount,
                                             before |-> unacknowledgedCharCount,
                                             paused |-> isPtyPaused]>>]
    /\ UNCHANGED <<cmuxSessionId, socket, exitCode, cols, rows, isDisposed, starts,
                   sockets, deletes, events, received, codec>>

AcknowledgeDataEvent(charCount) ==
    /\ unacknowledgedCharCount' = Max(unacknowledgedCharCount - charCount, 0)
    /\ isPtyPaused' = IF isPtyPaused /\ unacknowledgedCharCount' < LowWatermarkChars
                      THEN FALSE ELSE isPtyPaused
    /\ calls' = [calls EXCEPT !.lastAck = <<[charCount |-> charCount,
                                             before |-> unacknowledgedCharCount,
                                             paused |-> isPtyPaused]>>]
    /\ UNCHANGED <<cmuxSessionId, socket, exitCode, cols, rows, isDisposed, starts,
                   sockets, deletes, events, received, codec>>

\* clearUnacknowledgedChars resetting the count only
ClearCountOnly ==
    /\ unacknowledgedCharCount' = 0
    /\ isPtyPaused' = isPtyPaused
    /\ UNCHANGED <<cmuxSessionId, socket, exitCode, cols, rows, isDisposed, starts,
                   sockets, deletes, events, received, calls, codec>>

ClearUnacknowledgedChars ==
    /\ unacknowledgedCharCount' = 0
    /\ isPtyPaused' = FALSE
    /\ UNCHANGED <<cmuxSessionId, socket, exitCode, cols, rows, isDisposed, starts,
                   sockets, deletes, events, received, calls, codec>>

(***************************************************************************)
(* The variant of the class built on the ws library                        *)
(* (src/vs/platform/terminal/node/cmuxTerminalProcess.ts).  start,         *)
(* _createCmuxSession and the flow-control methods read as above; the      *)
(* channel is a WebSocket object, kept in `sockets` with                   *)
(*   state  "connecting", "open", "failed" (the handshake failed, 'error'  *)
(*          was emitted, 'close' not yet), "closing" (an error or the      *)
(*          peer's close frame ended an open connection, 'close' not yet   *)
(*          emitted), "closed" ('close' was emitted)                       *)
(* and this._ws is `socket`.                                               *)
(***************************************************************************)
\* the messages the 'message' callback may carry, as the bytes of a Buffer
WsMessages == { <<97>>, <<98, 99>>, <<100, 101, 102>> }

\* the codes the 'close' callback may carry: normal closure, going away, and
\* the code ws reports when the connection ended without a close frame
WsCloseCodes == { 1000, 1001, 1006 }

\* this._ws = new WebSocket(wsUrl): line 179
NewWebSocket == [state |-> "connecting", written |-> <<>>]

\* start(), lines 90-103, up to its first await
WsStart ==
    /\ Len(starts) < MaxStarts
    /\ IF cmuxSessionId # <<>>
       THEN /\ starts' = Append(starts,
                   ConnectWebSocket([pc |-> "idle", posted |-> FALSE, wsId |-> <<>>,
                                     req |-> "none", answer |-> <<>>, result |-> Pending],
                                    cmuxSessionId))
            /\ sockets' = Append(sockets, NewWebSocket)
            /\ socket' = Len(sockets) + 1
       ELSE /\ starts' = Append(starts, AwaitCreate)
            /\ UNCHANGED <<sockets, socket>>
    /\ UNCHANGED <<cmuxSessionId, exitCode, cols, rows, isPtyPaused,
                   unacknowledgedCharCount, isDisposed, deletes, events, received,
                   calls, codec>>

\* the create response ends; start resumes after its first await and
\* constructs the WebSocket
WsCreateResponse(k, answer) ==
    /\ starts[k].pc = "creating"
    /\ LET out == CreateOutcome(answer.status, answer.body) IN
       IF out.resolved
       THEN /\ cmuxSessionId' = out.id
            /\ starts' = [starts EXCEPT
                            ![k] = ConnectWebSocket([@ EXCEPT !.answer = <<answer>>], out.id)]
            /\ IF out.id # <<>>
               THEN /\ sockets' = Append(sockets, NewWebSocket)
                    /\ socket' = Len(sockets) + 1
               ELSE UNCHANGED <<sockets, socket>>
       ELSE /\ cmuxSessionId' = cmuxSessionId
            /\ starts' = [starts EXCEPT ![k].pc = "done", ![k].answer = <<answer>>,
                            ![k].result = [kind |-> "failure", message |-> out.error]]
            /\ UNCHANGED <<sockets, socket>>
    /\ UNCHANGED <<exitCode, cols, rows, isPtyPaused, unacknowledgedCharCount,
                   isDisposed, deletes, events, received, calls, codec>>

\* the 'open' callback (lines 181-184), then start's continuation after its
\* second await (lines 105-113)
WsOpen(k, s) ==
    /\ starts[k].pc = "connecting"
    /\ s \in 1..Len(sockets)
    /\ sockets[s].state = "connecting"
    /\ sockets' = [sockets EXCEPT ![s].state = "open"]
    /\ events' = Append(events,
          Event("ready", "start", 0, 0, 0, <<>>, <<>>, HashSessionId(cmuxSessionId),
                unacknowledgedCharCount, isPtyPaused, isDisposed))
    /\ starts' = [starts EXCEPT ![k].pc = "done", ![k].req = "answered",
                                ![k].result = Success]
    /\ UNCHANGED <<cmuxSessionId, socket, exitCode, cols, rows, isPtyPaused,
                   unacknowledgedCharCount, isDisposed, deletes, received, calls,
                   codec>>

\* the 'message' callback: lines 186-198
WsMessage(s, data) ==
    /\ s \in 1..Len(sockets)
    /\ sockets[s].state = "open"
    /\ calls.chunks < MaxChunks
    /\ LET text == Utf8Decode(data) IN
       /\ unacknowledgedCharCount' = unacknowledgedCharCount + Len(text)
       /\ isPtyPaused' = IF ~isPtyPaused /\ unacknowledgedCharCount' > HighWatermarkChars
                         THEN TRUE ELSE isPtyPaused
       /\ events' = Append(events,
             Event("data", "message", s, Len(received) + 1, 1, text, <<>>, 0,
                   unacknowledgedCharCount', isPtyPaused', isDisposed))
    /\ received' = Append(received, [sock |-> s, chunk |-> data])
    /\ calls' = [calls EXCEPT !.chunks = @ + 1]
    /\ UNCHANGED <<cmuxSessionId, socket, exitCode, cols, rows, isDisposed, starts,
                   sockets, deletes, codec>>

\* the 'error' callback: lines 206-211.  ws emits 'error' when the handshake
\* fails and when an open connection breaks, and 'close' after it; the
\* callback rejects the promise of _connectWebSocket unless the socket is open
WsError(s) ==
    /\ s \in 1..Len(sockets)
    /\ sockets[s].state \in {"connecting", "open"}
    /\ sockets' = [sockets EXCEPT ![s].state =
                      IF @ = "connecting" THEN "failed" ELSE "closing"]
    /\ starts' = IF sockets[s].state = "connecting"
                 THEN [k \in 1..Len(starts) |->
                         IF starts[k].pc = "connecting"
                         THEN [starts[k] EXCEPT !.pc = "done", !.req = "answered",
                                  !.result = Failure("ECONNREFUSED", <<>>, <<>>)]
                         ELSE starts[k]]
                 ELSE starts
    /\ UNCHANGED <<cmuxSessionId, socket, exitCode, cols, rows, isPtyPaused,
                   unacknowledgedCharCount, isDisposed, deletes, events, received,
                   calls, codec>>

\* this._exitCode = code === 1000 ? 0 : 1
WsExitCode(code) == IF code = 1000 THEN <<0>> ELSE <<1>>

\* the 'close' callback: lines 200-204.  An open connection is closed by the
\* peer's close frame, with the code the frame carries, or by the loss of the
\* connection, which ws reports as 1006; so it does a failed handshake
WsClose(s, code) ==
    /\ s \in 1..Len(sockets)
    /\ \/ sockets[s].state = "open"
       \/ sockets[s].state \in {"failed", "closing"} /\ code = 1006
    /\ sockets' = [sockets EXCEPT ![s].state = "closed"]
    /\ exitCode' = WsExitCode(code)
    /\ events' = Append(events,
          Event("exit", "wsClose", s, 0, 0, <<>>, exitCode', 0,
                unacknowledgedCharCount, isPtyPaused, isDisposed))
    /\ UNCHANGED <<cmuxSessionId, socket, cols, rows, isPtyPaused,
                   unacknowledgedCharCount, isDisposed, starts, deletes, received,
                   calls, codec>>

(***************************************************************************)
(* The frame codec on its own: _createWebSocketFrame applied to an         *)
(* argument, and _parseWebSocketFrames applied to the frame it built.      *)
(***************************************************************************)
\* the payload lengths at which the length encoding changes
BoundaryLengths == { 0, 1, 125, 126, 65535, 65536 }

\* the fillings of an argument: ASCII text, and for a Buffer every byte value
Fill(n, isString, kind) ==
    [i \in 1..n |-> IF isString THEN (IF kind = 1 THEN 97 + (i % 26) ELSE 32 + ((i * 7) % 95))
                     ELSE (IF kind = 1 THEN (i * 37) % 256 ELSE 255 - (i % 256))]

\* the mask keys and fillings tried at a length: all of them for the short
\* payloads, one of each for the two long ones
LongPayload(n) == n >= 65535
KeysAt(n) == IF LongPayload(n) THEN WriteMaskKeys ELSE MaskKeys
KindsAt(n) == IF LongPayload(n) THEN { 1 } ELSE 1..2

\* the arguments of _createWebSocketFrame with the mask key drawn for each:
\* strings and Buffers whose payload has a boundary length or the length
\* 127, and two short strings with two-byte characters
CodecInputs ==
    UNION { { [data |-> Fill(n, isString, kind), isString |-> isString, mask |-> mask] :
                isString \in BOOLEAN, kind \in KindsAt(n), mask \in KeysAt(n) } :
            n \in BoundaryLengths \cup { 127 } }
    \cup { [data |-> d, isString |-> TRUE, mask |-> mask] :
             d \in { <<233>>, <<104, 233, 108, 1087>> }, mask \in MaskKeys }

\* the process as constructed, and an argument with the mask key drawn for it
InitCodec ==
    /\ cmuxSessionId = <<>>
    /\ socket = 0
    /\ exitCode = <<>>
    /\ cols = 80
    /\ rows = 24
    /\ isPtyPaused = FALSE
    /\ unacknowledgedCharCount = 0
    /\ isDisposed = FALSE
    /\ starts = <<>>
    /\ sockets = <<>>
    /\ deletes = <<>>
    /\ events = <<>>
    /\ received = <<>>
    /\ calls = [chunks |-> 0, writes |-> 0, inputsDropped |-> 0, resizesDropped |-> 0,
                lastDrop |-> "", teardowns |-> 0, lastAck |-> <<>>]
    /\ \E in \in CodecInputs :
          codec = [stage |-> "input", data |-> in.data, isString |-> in.isString,
                   mask |-> in.mask, frame |-> <<>>, frames |-> <<>>]

\* _createWebSocketFrame(data)
CodecEncode ==
    /\ codec.stage = "input"
    /\ codec' = [codec EXCEPT !.stage = "encoded",
                    !.frame = CreateWebSocketFrame(codec.data, codec.isString, codec.mask)]
    /\ UNCHANGED <<cmuxSessionId, socket, exitCode, cols, rows, isPtyPaused,
                   unacknowledgedCharCount, isDisposed, starts, sockets, deletes,
                   events, received, calls>>

\* _parseWebSocketFrames(frame)
CodecDecode ==
    /\ codec.stage = "encoded"
    /\ codec' = [codec EXCEPT !.stage = "decoded",
                    !.frames = ParseWebSocketFrames(codec.frame)]
    /\ UNCHANGED <<cmuxSessionId, socket, exitCode, cols, rows, isPtyPaused,
                   unacknowledgedCharCount, isDisposed, starts, sockets, deletes,
                   events, received, calls>>

\* the length of the longest session id hashed
MaxIdLen == 6

\* session ids as sequences of UTF-16 code units: "-", "f" and the largest
\* code unit, so that the hash leaves the 32-bit range from 5 characters on
HashInputs == UNION { [1..n -> { 45, 102, 65535 }] : n \in 0..MaxIdLen }

\* the process as constructed, and a session id
InitHash ==
    /\ cmuxSessionId = <<>>
    /\ socket = 0
    /\ exitCode = <<>>
    /\ cols = 80
    /\ rows = 24
    /\ isPtyPaused = FALSE
    /\ unacknowledgedCharCount = 0
    /\ isDisposed = FALSE
    /\ starts = <<>>
    /\ sockets = <<>>
    /\ deletes = <<>>
    /\ events = <<>>
    /\ received = <<>>
    /\ calls = [chunks |-> 0, writes |-> 0, inputsDropped |-> 0, resizesDropped |-> 0,
                lastDrop |-> "", teardowns |-> 0, lastAck |-> <<>>]
    /\ \E id \in HashInputs :
          codec = [stage |-> "id", data |-> id, isString |-> TRUE, mask |-> <<>>,
                   frame |-> <<>>, frames |-> <<>>, pid |-> 0]

\* const pseudoPid = this._hashSessionId(id)
PseudoPid ==
    /\ codec.stage = "id"
    /\ codec' = [codec EXCEPT !.stage = "hashed", !.pid = HashSessionId(codec.data)]
    /\ UNCHANGED <<cmuxSessionId, socket, exitCode, cols, rows, isPtyPaused,
                   unacknowledgedCharCount, isDisposed, starts, sockets, deletes,
                   events, received, calls>>

\* the number of complete frames in front of an incomplete one
MaxFrames == 2

\* frames as a server may send them, each with what it decodes to: a short
\* text frame, a masked binary frame, a frame with a 16-bit length, a frame
\* with a 64-bit length, and a ping without payload
FrameSamples ==
    { [bytes |-> ServerFrame(TextOpcode, <<97>>),
       frame |-> [opcode |-> TextOpcode, payload |-> <<97>>]],
      [bytes |-> <<130, 130, 1, 2, 3, 4>> \o XorMask(<<98, 99>>, <<1, 2, 3, 4>>),
       frame |-> [opcode |-> BinaryOpcode, payload |-> <<98, 99>>]],
      [bytes |-> <<129, 126>> \o UInt16BE(126) \o Fill(126, TRUE, 1),
       frame |-> [opcode |-> TextOpcode, payload |-> Fill(126, TRUE, 1)]],
      [bytes |-> <<130, 127>> \o BigUInt64BE(3) \o <<7, 8, 9>>,
       frame |-> [opcode |-> BinaryOpcode, payload |-> <<7, 8, 9>>]],
      [bytes |-> ServerFrame(9, <<>>),
       frame |-> [opcode |-> 9, payload |-> <<>>]] }

\* the beginnings of a frame that stop short of its end: inside the
\* two-byte header, the extended length, the mask key or the payload
Beginnings(bytes) ==
    { SubSeq(bytes, 1, n) : n \in { m \in 0..(Len(bytes) - 1) : m <= 12 \/ m = Len(bytes) - 1 } }

RECURSIVE Concat(_)
\* Buffer.concat
Concat(buffers) ==
    IF buffers = <<>> THEN <<>> ELSE Head(buffers) \o Concat(Tail(buffers))

\* the chunks made of up to MaxFrames complete frames and the beginning of
\* one more, with the frames that are complete
TruncatedInputs ==
    UNION { { [data |-> Concat([i \in 1..k |-> samples[i].bytes]) \o tail,
               complete |-> [i \in 1..k |-> samples[i].frame],
               tail |-> tail] :
                samples \in [1..k -> FrameSamples],
                tail \in UNION { Beginnings(s.bytes) : s \in FrameSamples } } :
            k \in 0..MaxFrames }

\* the process as constructed, and a chunk that ends inside a frame
InitTruncated ==
    /\ cmuxSessionId = <<>>
    /\ socket = 0
    /\ exitCode = <<>>
    /\ cols = 80
    /\ rows = 24
    /\ isPtyPaused = FALSE
    /\ unacknowledgedCharCount = 0
    /\ isDisposed = FALSE
    /\ starts = <<>>
    /\ sockets = <<>>
    /\ deletes = <<>>
    /\ events = <<>>
    /\ received = <<>>
    /\ calls = [chunks |-> 0, writes |-> 0, inputsDropped |-> 0, resizesDropped |-> 0,
                lastDrop |-> "", teardowns |-> 0, lastAck |-> <<>>]
    /\ \E in \in TruncatedInputs :
          codec = [stage |-> "encoded", data |-> <<>>, isString |-> FALSE,
                   mask |-> <<>>, frame |-> in.data, frames |-> <<>>,
                   complete |-> in.complete, tail |-> in.tail]

(***************************************************************************)
(* The specification.                                                      *)
(***************************************************************************)
Next ==
    \/ starts = <<>> /\ Start
    \/ \E k \in 1..Len(starts) : \E answer \in CreateAnswers : CreateResponse(k, answer)
    \/ \E k \in 1..Len(starts) : CreateError(k)
    \/ \E k \in 1..Len(starts) : UpgradeAccepted(k)
    \/ \E k \in 1..Len(starts) : UpgradeError(k)
    \/ \E k \in 1..Len(starts) : UpgradeRefused(k)
    \/ \E s \in 1..Len(sockets) : \E chunk \in Chunks : SocketData(s, chunk)
    \/ \E s \in 1..Len(sockets) : SocketClose(s)
    \/ \E immediate \in BOOLEAN : Shutdown(immediate)
    \/ Dispose
    \/ \E signal \in Signals : SendSignal(signal)
    \/ \E data \in InputData : \E mask \in WriteMaskKeys : Input(data, mask)
    \/ \E a \in ResizeArgs : \E mask \in WriteMaskKeys : Resize(a.cols, a.rows, mask)

\* start() is called once, as the terminal service does
Spec == Init /\ [][Next]_vars

\* start() may be called again on the same instance, also while an earlier
\* invocation is still waiting
NextRestart ==
    \/ Start
    \/ \E k \in 1..Len(starts) : \E answer \in CreateAnswers : CreateResponse(k, answer)
    \/ \E k \in 1..Len(starts) : CreateError(k)
    \/ \E k \in 1..Len(starts) : UpgradeAccepted(k)
    \/ \E k \in 1..Len(starts) : UpgradeError(k)
    \/ \E k \in 1..Len(starts) : UpgradeRefused(k)
    \/ \E s \in 1..Len(sockets) : SocketClose(s)
    \/ \E immediate \in BOOLEAN : Shutdown(immediate)

SpecRestart == Init /\ [][NextRestart]_vars

\* the codec applied to one argument
NextCodec ==
    \/ CodecEncode
    \/ CodecDecode

SpecCodec == InitCodec /\ [][NextCodec]_vars

\* the ws variant: one start(), the callbacks of its WebSocket, and the
\* acknowledgements
NextWs ==
    \/ starts = <<>> /\ WsStart
    \/ \E k \in 1..Len(starts) : \E answer \in CreateAnswers : WsCreateResponse(k, answer)
    \/ \E k \in 1..Len(starts) : CreateError(k)
    \/ \E k \in 1..Len(starts) : \E s \in 1..Len(sockets) : WsOpen(k, s)
    \/ \E s \in 1..Len(sockets) : \E data \in WsMessages : WsMessage(s, data)
    \/ \E s \in 1..Len(sockets) : WsError(s)
    \/ \E s \in 1..Len(sockets) : \E code \in WsCloseCodes : WsClose(s, code)
    \/ \E charCount \in AckCounts : AcknowledgeDataEvent(charCount)
    \/ ClearUnacknowledgedChars

SpecWs == Init /\ [][NextWs]_vars

\* one start() that succeeds, then the ways the process is torn down and the
\* answers to the DELETE requests it issued
NextShutdown ==
    \/ starts = <<>> /\ Start
    \/ \E k \in 1..Len(starts) : \E answer \in CreateAnswers : CreateResponse(k, answer)
    \/ \E k \in 1..Len(starts) : UpgradeAccepted(k)
    \/ \E s \in 1..Len(sockets) : SocketClose(s)
    \/ \E immediate \in BOOLEAN : Shutdown(immediate)
    \/ Dispose
    \/ \E signal \in Signals : SendSignal(signal)
    \/ \E d \in 1..Len(deletes) : \E status \in DeleteStatuses : DeleteResponse(d, status)
    \/ \E d \in 1..Len(deletes) : DeleteError(d)

SpecShutdown == Init /\ [][NextShutdown]_vars

\* the hash alone, on session ids of every length up to MaxIdLen
NextHash == PseudoPid

SpecHash == InitHash /\ [][NextHash]_vars

\* the decoder alone, on chunks that end inside a frame
NextTruncated == CodecDecode

SpecTruncated == InitTruncated /\ [][NextTruncated]_vars

\* one start() and then shutdown(true) as the only teardown, at any moment
\* from the start on, with the answers to the create, upgrade and DELETE
\* requests
NextImmediate ==
    \/ starts = <<>> /\ Start
    \/ \E k \in 1..Len(starts) : \E answer \in CreateAnswers : CreateResponse(k, answer)
    \/ \E k \in 1..Len(starts) : CreateError(k)
    \/ \E k \in 1..Len(starts) : UpgradeAccepted(k)
    \/ \E k \in 1..Len(starts) : UpgradeError(k)
    \/ \E s \in 1..Len(sockets) : SocketClose(s)
    \/ starts # <<>> /\ Shutdown(TRUE)
    \/ \E d \in 1..Len(deletes) : \E status \in DeleteStatuses : DeleteResponse(d, status)
    \/ \E d \in 1..Len(deletes) : DeleteError(d)

SpecImmediate == Init /\ [][NextImmediate]_vars

\* one start() that succeeds, then chunks whose frames carry control and
\* reserved opcodes next to text and close frames
NextOpcodes ==
    \/ starts = <<>> /\ Start
    \/ \E k \in 1..Len(starts) : \E answer \in CreateAnswers : CreateResponse(k, answer)
    \/ \E k \in 1..Len(starts) : UpgradeAccepted(k)
    \/ \E s \in 1..Len(sockets) : \E chunk \in OpcodeChunks : SocketData(s, chunk)
    \/ \E s \in 1..Len(sockets) : SocketClose(s)
    \/ \E charCount \in AckCounts : AcknowledgeDataEvent(charCount)
    \/ ClearUnacknowledgedChars

SpecOpcodes == Init /\ [][NextOpcodes]_vars

\* one start() that succeeds, then the traffic of an open channel: chunks,
\* acknowledgements, transport errors and the close of the socket
NextFlow ==
    \/ starts = <<>> /\ Start
    \/ \E k \in 1..Len(starts) : \E answer \in CreateAnswers : CreateResponse(k, answer)
    \/ \E k \in 1..Len(starts) : UpgradeAccepted(k)
    \/ \E s \in 1..Len(sockets) : \E chunk \in Chunks : SocketData(s, chunk)
    \/ \E s \in 1..Len(sockets) : SocketError(s)
    \/ \E s \in 1..Len(sockets) : SocketClose(s)
    \/ \E charCount \in AckCounts : AcknowledgeDataEvent(charCount)
    \/ ClearUnacknowledgedChars

SpecFlow == Init /\ [][NextFlow]_vars

(***************************************************************************)
(* Properties.  An event counts as emitted when it was fired while the     *)
(* store was not yet disposed (live): dispose() also disposes the          *)
(* emitters, and the properties are stated on the events a listener can    *)
(* still receive.                                                          *)
(***************************************************************************)
\* the positions in `events` of the emitted events of one type
Emitted(type) == { i \in 1..Len(events) : events[i].type = type /\ events[i].live }

IsDataFrame(frame) == frame.opcode = TextOpcode \/ frame.opcode = BinaryOpcode

\* C1: for one process instance the exit event is emitted at most once,
\* whatever close frames, socket-close callbacks, shutdown and sendSignal
\* calls occur.
C1_ExitAtMostOnce == Cardinality(Emitted("exit")) <= 1

\* the events a step fires, in the order it fires them
Fired == SubSeq(events', Len(events) + 1, Len(events'))

\* C2: on each socket the data events are fired in the order of their frames
\* in the received bytes.  Within a chunk: a 'data' callback fires events for
\* the frames of its own chunk only, in increasing frame order, one data
\* event carrying the decoded text for every text or binary frame it
\* decodes, and an exit event only for a close frame, hence after the data
\* events of the frames before it.  Across chunks: events already fired are
\* never reordered, and only a 'data' callback fires data events.  The exit
\* event of the socket's close comes after all data events of the socket: it
\* leaves the socket closed for good, and data events are fired for an open
\* socket only.
C2_DataInArrivalOrder ==
    [][ LET n == Len(received') IN
        /\ Len(events') >= Len(events)
        /\ SubSeq(events', 1, Len(events)) = events
        /\ IF received' # received
           THEN LET s == received'[n].sock
                    frames == ParseWebSocketFrames(received'[n].chunk)
                IN /\ SubSeq(received', 1, n - 1) = received
                   /\ sockets[s].state = "open"
                   /\ \A i \in 1..Len(Fired) :
                         /\ Fired[i].by = "frame" /\ Fired[i].sock = s
                         /\ Fired[i].chunk = n /\ Fired[i].idx \in 1..Len(frames)
                         /\ Fired[i].type = "data" => IsDataFrame(frames[Fired[i].idx])
                         /\ Fired[i].type = "exit" =>
                               frames[Fired[i].idx].opcode = CloseOpcode
                   /\ \A i, j \in 1..Len(Fired) : i < j => Fired[i].idx < Fired[j].idx
                   /\ \A x \in 1..Len(frames) :
                         IsDataFrame(frames[x]) =>
                            \E i \in 1..Len(Fired) :
                               /\ Fired[i].type = "data" /\ Fired[i].idx = x
                               /\ Fired[i].text = Utf8Decode(frames[x].payload)
           ELSE \A i \in 1..Len(Fired) : Fired[i].type # "data"
        /\ \A i \in 1..Len(Fired) :
              Fired[i].by = "socketClose" => sockets'[Fired[i].sock].state = "closed"
        /\ \A s \in 1..Len(sockets) :
              sockets[s].state = "closed" => sockets'[s].state = "closed"
      ]_vars

\* C2's case: data events of two chunks, then the exit event of a close frame
C2_Witness ==
    \E i, j, k \in 1..Len(events) :
       /\ i < j /\ j < k
       /\ events[i].type = "data" /\ events[i].chunk = 1
       /\ events[j].type = "data" /\ events[j].chunk = 2
       /\ events[k].type = "exit" /\ events[k].by = "frame" /\ events[k].chunk = 2

\* C3: Exited is terminal: after an emitted exit event no data event and no
\* ready event is emitted.
C3_ExitedIsTerminal ==
    \A i \in Emitted("exit") : \A j \in Emitted("data") \cup Emitted("ready") : j < i

\* the create answers the claim C4 is about: a status other than 200, or a
\* body that is not valid JSON
IsCreateFailure(answer) == answer.status # 200 \/ ~JsonParse(answer.body).ok

\* start k returned a failure and nothing else; it opened no channel
FailedWithoutChannel(k) ==
    /\ starts[k].pc = "done"
    /\ starts[k].result.kind = "failure"
    /\ starts[k].wsId = <<>>
    /\ starts[k].req = "none"

NoReadyEvent == \A i \in 1..Len(events) : events[i].type # "ready"

\* C4 (as stated): a create answer with a status other than 200, or with a 200
\* body that is not valid JSON, makes start return one failure whose message
\* contains the HTTP status and the raw body; no channel is opened and no
\* ready event is emitted.
C4_FailureCarriesStatusAndBody ==
    \A k \in 1..Len(starts) :
       (starts[k].answer # <<>> /\ IsCreateFailure(starts[k].answer[1])) =>
          /\ FailedWithoutChannel(k)
          /\ starts[k].result.message.status = <<starts[k].answer[1].status>>
          /\ starts[k].result.message.data = <<starts[k].answer[1].body>>
          /\ sockets = <<>>
          /\ NoReadyEvent

\* C4 (amended): such an answer makes start return one failure, no channel
\* is opened and no ready event is emitted; the message contains the raw body
\* in both cases, and the HTTP status only when the status is not 200 (for a
\* 200 body that is not valid JSON it reads "Invalid JSON response: <body>").
C4_FailureCarriesBody ==
    \A k \in 1..Len(starts) :
       (starts[k].answer # <<>> /\ IsCreateFailure(starts[k].answer[1])) =>
          /\ FailedWithoutChannel(k)
          /\ starts[k].result.message.data = <<starts[k].answer[1].body>>
          /\ IF starts[k].answer[1].status # 200
             THEN /\ starts[k].result.message.text = "HTTP"
                  /\ starts[k].result.message.status = <<starts[k].answer[1].status>>
             ELSE /\ starts[k].result.message.text = "Invalid JSON response"
                  /\ starts[k].result.message.status = <<>>
          /\ sockets = <<>>
          /\ NoReadyEvent

\* C4's case: the create call was answered 500 "boom" and start has returned
C4_Witness ==
    \E k \in 1..Len(starts) :
       /\ starts[k].answer = <<[status |-> 500, body |-> "boom"]>>
       /\ starts[k].pc = "done"

\* the upgrade handshake of start k failed
HandshakeFailed(k) ==
    /\ starts[k].pc = "done"
    /\ starts[k].req = "answered"
    /\ starts[k].result.kind # "success"

\* the exit events a step fires
NewExits == { i \in (Len(events) + 1)..Len(events') : events'[i].type = "exit" }

C6_StartCompletes ==
    \A k \in 1..Len(starts) :
       starts[k].pc # "done" =>
          \/ starts[k].pc = "creating"
          \/ starts[k].pc = "connecting" /\ starts[k].req = "pending"

\* C7: the ready event is emitted at most once per instance, over any
\* sequence of start calls.
C7_ReadyAtMostOnce == Cardinality(Emitted("ready")) <= 1

\* the channel is open: a socket is installed and it is neither destroyed
\* nor closed
ChannelOpen == socket # 0 /\ sockets[socket].state = "open"

\* what socket s had been given to write before the step (nothing, when the
\* step creates it)
WrittenBefore(s) == IF s <= Len(sockets) THEN sockets[s].written ELSE <<>>

\* the frames an input or resize call of the model can build
CallFrames ==
    { CreateWebSocketFrame(d, TRUE, m) : d \in InputData, m \in MaskKeys }
    \cup { CreateWebSocketFrame(ResizeMessage(a.cols, a.rows), TRUE, m) :
              a \in ResizeArgs, m \in MaskKeys }

\* C8: an input call made while the channel is not open (not yet open, or
\* already closed) changes nothing: it writes no bytes, and its data is not
\* queued: bytes reach a socket only in a step of a call made while the
\* channel is open, which appends that call's one frame (so opening the
\* channel writes nothing).
C8_InputDroppedWhenNotOpen ==
    [][ /\ \A d \in InputData, m \in MaskKeys :
              (Input(d, m) /\ ~ChannelOpen) =>
                 UNCHANGED <<cmuxSessionId, socket, exitCode, cols, rows, isPtyPaused,
                             unacknowledgedCharCount, isDisposed, starts, sockets,
                             deletes, events, received>>
        /\ \A s \in 1..Len(sockets') :
              sockets'[s].written # WrittenBefore(s) =>
                 /\ ChannelOpen /\ socket = s
                 /\ \E f \in CallFrames : sockets'[s].written = Append(WrittenBefore(s), f)
      ]_vars

\* C8's case: an input call was dropped for want of a socket, the channel
\* has opened since, and nothing was written to it
C8_Witness ==
    /\ calls.inputsDropped >= 1 /\ calls.lastDrop = "noSocket"
    /\ ChannelOpen /\ ~isDisposed
    /\ sockets[socket].written = <<>>

\* C9: a resize call made while the channel is not open, or after the object
\* is disposed, is a no-op: it writes no bytes and leaves cols, rows, the
\* flow-control state, the exit code and everything else unchanged.
C9_ResizeNoOpWhenNotOpen ==
    [][ \A a \in ResizeArgs, m \in MaskKeys :
           (Resize(a.cols, a.rows, m) /\ (~ChannelOpen \/ isDisposed)) =>
              UNCHANGED <<cmuxSessionId, socket, exitCode, cols, rows, isPtyPaused,
                          unacknowledgedCharCount, isDisposed, starts, sockets,
                          deletes, events, received>>
      ]_vars

\* C9's case: a resize call was made before any socket existed
C9_Witness ==
    /\ calls.resizesDropped >= 1 /\ calls.lastDrop = "noSocket"
    /\ cols = 80 /\ rows = 24

\* C10: once the channel is closed, by shutdown or dispose (the store is
\* disposed) or by a close of the socket, no later step writes bytes: a
\* socket that is not open is never written to again, and after disposal no
\* socket is.
C10_NoWriteOnceClosed ==
    [][ \A s \in 1..Len(sockets') :
           (isDisposed \/ (s <= Len(sockets) /\ sockets[s].state # "open")) =>
              sockets'[s].written = WrittenBefore(s) ]_vars

\* C10's case: a call wrote while the channel was open, the socket was
\* closed, and a later call was dropped because the socket is destroyed
C10_Witness ==
    /\ calls.writes >= 1 /\ calls.lastDrop = "destroyed"
    /\ socket # 0 /\ sockets[socket].state = "closed"
    /\ Len(sockets[socket].written) = 1

(***************************************************************************)
(* Flow control.                                                           *)
(***************************************************************************)
\* the step is the callback of an inbound chunk
IsDataStep == received' # received

\* the step is an acknowledgeDataEvent call
IsAckStep == \E charCount \in AckCounts : AcknowledgeDataEvent(charCount)

\* C11: isPtyPaused turns from false to true only in the callback of an
\* inbound chunk after which unacknowledgedCharCount exceeds the high
\* watermark, and from true to false only in an acknowledgeDataEvent call
\* that leaves the count below the low watermark or in
\* clearUnacknowledgedChars; a chunk arriving while paused and an
\* acknowledgement that leaves the count at or above the low watermark leave
\* it as it is.
C11_PauseHysteresis ==
    [][ /\ (~isPtyPaused /\ isPtyPaused')
            => (IsDataStep /\ unacknowledgedCharCount' > HighWatermarkChars)
        /\ (isPtyPaused /\ ~isPtyPaused')
            => \/ IsAckStep /\ unacknowledgedCharCount' < LowWatermarkChars
               \/ ClearUnacknowledgedChars
        /\ (isPtyPaused /\ IsDataStep) => isPtyPaused'
        /\ (isPtyPaused /\ IsAckStep /\ unacknowledgedCharCount' >= LowWatermarkChars)
            => isPtyPaused'
        /\ (~isPtyPaused /\ IsDataStep /\ unacknowledgedCharCount' <= HighWatermarkChars)
            => ~isPtyPaused'
      ]_vars

\* data paused the process and an acknowledgement that left the count below
\* the low watermark resumed it
C11_Witness ==
    /\ \E i \in 1..Len(events) : events[i].type = "data" /\ events[i].paused
    /\ calls.lastAck # <<>>
    /\ calls.lastAck[1].paused
    /\ calls.lastAck[1].charCount > 0
    /\ calls.lastAck[1].before - calls.lastAck[1].charCount < LowWatermarkChars
    /\ unacknowledgedCharCount < LowWatermarkChars
    /\ ~isPtyPaused

\* C12: unacknowledgedCharCount is never negative; an acknowledgement of more
\* than is outstanding leaves it at 0.
C12_CountNonNegative == unacknowledgedCharCount >= 0

\* an acknowledgement of more than was outstanding has run
C12_Witness ==
    /\ calls.lastAck # <<>>
    /\ calls.lastAck[1].before > 0
    /\ calls.lastAck[1].charCount > calls.lastAck[1].before
    /\ unacknowledgedCharCount = 0

(***************************************************************************)
(* Transport errors.                                                       *)
(***************************************************************************)
\* the sockets whose 'error' callback runs in the step
Erroring ==
    { s \in 1..Len(sockets) : sockets[s].state # "errored" /\ sockets'[s].state = "errored" }

\* C18: the 'error' callback of the socket of a started process fires no
\* event, keeps the socket reference, and leaves session id, exit code and
\* flow-control fields as they are; every exit event is fired by a close
\* frame, by the socket's 'close' callback or by shutdown.
C18_SocketErrorOnlyLogged ==
    [][ /\ Erroring # {}
            => /\ events' = events
               /\ socket' = socket
               /\ cmuxSessionId' = cmuxSessionId
               /\ exitCode' = exitCode
               /\ isPtyPaused' = isPtyPaused
               /\ unacknowledgedCharCount' = unacknowledgedCharCount
               /\ isDisposed' = isDisposed
        /\ \A i \in (Len(events) + 1)..Len(events') :
              events'[i].type = "exit"
                  => events'[i].by \in {"frame", "socketClose", "shutdown"}
      ]_vars

\* the socket of a ready process has reported an error and no exit was fired
C18_Witness ==
    /\ Emitted("ready") # {}
    /\ \E s \in 1..Len(sockets) : sockets[s].state = "errored"
    /\ socket # 0
    /\ \A i \in 1..Len(events) : events[i].type # "exit"
    /\ exitCode = <<>>

(***************************************************************************)
(* Shutdown and session deletion.                                          *)
(***************************************************************************)
\* the step runs the body of shutdown: it fires shutdown's exit event
IsShutdownStep ==
    \E i \in (Len(events) + 1)..Len(events') : events'[i].by = "shutdown"

\* the step is the answer to a DELETE request
IsDeleteOutcome ==
    /\ Len(deletes') = Len(deletes)
    /\ \E d \in 1..Len(deletes) : deletes'[d].status # deletes[d].status

\* C13: shutdown(true) (and sendSignal through it) issues the DELETE request
\* for the session id while the socket reference is still set and the socket
\* not yet destroyed by the call, and the same call destroys the socket,
\* clears the reference and fires exit; the answer to the request, whenever
\* and whatever it is, changes nothing but the request's record;
\* shutdown(false) issues no request.
C13_DeleteBeforeClose ==
    [][ /\ Len(deletes') > Len(deletes)
            => /\ deletes' = Append(deletes, deletes'[Len(deletes')])
               /\ deletes'[Len(deletes')].id = cmuxSessionId
               /\ deletes'[Len(deletes')].status = "pending"
               /\ deletes'[Len(deletes')].socket = socket
               /\ deletes'[Len(deletes')].open
                     = (socket # 0 /\ sockets[socket].state = "open")
               /\ IsShutdownStep
        /\ IsShutdownStep
            => /\ socket' = 0
               /\ socket # 0 => sockets'[socket].state # "open"
               /\ Len(events') = Len(events) + 1
               /\ events'[Len(events')].type = "exit"
        /\ (Shutdown(TRUE) /\ cmuxSessionId # <<>>) => Len(deletes') = Len(deletes) + 1
        /\ Shutdown(FALSE) => deletes' = deletes
        /\ IsDeleteOutcome
            => UNCHANGED <<cmuxSessionId, socket, exitCode, cols, rows, isPtyPaused,
                           unacknowledgedCharCount, isDisposed, starts, sockets, events,
                           received, calls>>
      ]_vars

\* a DELETE request issued while the socket was open has failed, another is
\* still unanswered, and the socket is destroyed and exit fired all the same
C13_Witness ==
    /\ \E d \in 1..Len(deletes) :
          deletes[d].open /\ deletes[d].status = "rejected"
    /\ \E d \in 1..Len(deletes) : deletes[d].status = "pending"
    /\ socket = 0
    /\ \A s \in 1..Len(sockets) : sockets[s].state # "open"
    /\ \E i \in 1..Len(events) : events[i].by = "shutdown" /\ events[i].live

(***************************************************************************)
(* Exit codes.                                                             *)
(***************************************************************************)
\* C14: every exit event fired for a close frame or for the close of the
\* socket carries the code 0, and exitCode, once set, keeps its value.
C14_CloseExitsCarryZero ==
    [][ /\ \A i \in (Len(events) + 1)..Len(events') :
              (events'[i].type = "exit" /\ events'[i].by \in {"frame", "socketClose", "wsClose"})
                  => events'[i].code = <<0>>
        /\ exitCode # <<>> => exitCode' = exitCode
      ]_vars

(***************************************************************************)
(* One channel per instance.                                               *)
(***************************************************************************)
\* the sockets that are open
OpenSockets == { s \in 1..Len(sockets) : sockets[s].state = "open" }

\* C15: at most one socket of the instance is open at a time, also when
\* start is called more than once.
C15_AtMostOneOpenSocket == Cardinality(OpenSockets) <= 1

(***************************************************************************)
(* Closing the channel.                                                    *)
(***************************************************************************)
\* the step is a shutdown, a sendSignal that shuts down, or the first dispose:
\* each runs _closeSocket
IsTeardownStep == calls'.teardowns = calls.teardowns + 1

\* C16: every run of _closeSocket leaves the socket reference cleared; the
\* first destroys the socket the reference held, and one that finds the
\* reference cleared destroys nothing and leaves every socket as it was.
C16_CloseIdempotent ==
    [][ IsTeardownStep
          => /\ socket' = 0
             /\ socket = 0 => sockets' = sockets
             /\ socket # 0
                  => /\ sockets'[socket].state # "open"
                     /\ \A s \in 1..Len(sockets) : s # socket => sockets'[s] = sockets[s]
             /\ Len(sockets') = Len(sockets)
      ]_vars

\* a first shutdown found the socket open and destroyed it, a second found
\* the reference cleared
C16_Witness ==
    /\ Len(deletes) = 2
    /\ deletes[1].open
    /\ deletes[2].socket = 0
    /\ sockets[deletes[1].socket].state = "destroyed"
    /\ socket = 0
    /\ calls.teardowns = 2

(***************************************************************************)
(* Attaching to an existing session.                                       *)
(***************************************************************************)
\* C17: on an instance constructed with a session id, no start() issues
\* POST /api/tabs, the id stays the session id, and every start() requests
\* the upgrade on /ws/<that id>; a start() issues the POST only on an
\* instance constructed without an id.
C17_AttachMakesNoCreateCall ==
    [][ /\ cmuxSessionId = ExistingId
            => /\ cmuxSessionId' = ExistingId
               /\ \A k \in 1..Len(starts') :
                     /\ ~starts'[k].posted
                     /\ starts'[k].answer = <<>>
                     /\ starts'[k].wsId = ExistingId
                     /\ starts'[k].req # "none"
        /\ \A k \in (Len(starts) + 1)..Len(starts') :
              starts'[k].posted <=> cmuxSessionId = <<>>
      ]_vars

\* an attached instance is ready on the socket of /ws/<its id>, and no
\* create call was made
C17_Witness ==
    /\ cmuxSessionId = ExistingId
    /\ starts # <<>>
    /\ \A k \in 1..Len(starts) : ~starts[k].posted /\ starts[k].wsId = ExistingId
    /\ \E k \in 1..Len(starts) : starts[k].result = Success
    /\ socket # 0
    /\ Emitted("ready") # {}

(***************************************************************************)
(* The frame codec.                                                        *)
(***************************************************************************)
\* the payload of the frame built from the argument: its UTF-8 bytes for a
\* string, the bytes themselves for a Buffer
CodecPayload == IF codec.isString THEN Utf8Encode(codec.data) ELSE codec.data

\* C19: decoding the frame the encoder built from a payload of a boundary
\* length yields exactly one frame, with the opcode of the argument's kind
\* (text for a string, binary for a Buffer) and the same payload.
C19_EncodeDecodeRoundTrip ==
    codec.stage = "decoded"
        => /\ Len(codec.frames) = 1
           /\ codec.frames[1].opcode = (IF codec.isString THEN TextOpcode ELSE BinaryOpcode)
           /\ codec.frames[1].payload = CodecPayload

\* a Buffer of 126 bytes, the shortest with a 16-bit length, went through
\* the encoder and the decoder
C19_Witness ==
    /\ codec.stage = "decoded"
    /\ ~codec.isString
    /\ Len(codec.data) = 126
    /\ Len(codec.frames) = 1
    /\ Len(codec.frames[1].payload) = 126

\* the number of header bytes before the mask key
LengthFieldEnd(n) == IF n < 126 THEN 2 ELSE IF n < 65536 THEN 4 ELSE 10

\* C20: every frame the encoder builds has the FIN bit and the mask bit set,
\* carries the payload length in the encoding its size selects (in the
\* second byte below 126, in 16 bits below 65536, in 64 bits otherwise),
\* and its payload bytes XORed with the transmitted mask key give the input.
C20_FrameIsFinalAndMasked ==
    codec.stage \in {"encoded", "decoded"}
        => LET f == codec.frame
               p == CodecPayload
               n == Len(p)
               e == LengthFieldEnd(n)
           IN /\ f[1] \div 128 = 1
              /\ f[1] % 16 = (IF codec.isString THEN TextOpcode ELSE BinaryOpcode)
              /\ f[2] \div 128 = 1
              /\ IF n < 126 THEN f[2] % 128 = n
                 ELSE IF n < 65536
                 THEN f[2] % 128 = 126 /\ (f[3] * 256) + f[4] = n
                 ELSE /\ f[2] % 128 = 127
                      /\ \A i \in 3..7 : f[i] = 0
                      /\ (f[8] * 65536) + (f[9] * 256) + f[10] = n
              /\ Len(f) = e + 4 + n
              /\ SubSeq(f, e + 1, e + 4) = codec.mask
              /\ XorMask(SubSeq(f, e + 5, e + 4 + n), SubSeq(f, e + 1, e + 4)) = p

\* a string of 126 characters was encoded with a 16-bit length
C20_Witness ==
    /\ codec.stage = "encoded"
    /\ codec.isString
    /\ Len(codec.data) = 126
    /\ Len(codec.frame) = 126 + 8


(***************************************************************************)
(* Flow control, continued.                                                *)
(***************************************************************************)
\* C22: clearUnacknowledgedChars can be called in every state, paused or
\* not and whatever the count; it leaves the count at 0 and the process not
\* paused, and changes nothing else.
C22_ClearResets ==
    /\ [](ENABLED ClearUnacknowledgedChars)
    /\ [][ ClearUnacknowledgedChars
             => /\ unacknowledgedCharCount' = 0
                /\ isPtyPaused' = FALSE
                /\ UNCHANGED <<cmuxSessionId, socket, exitCode, cols, rows, isDisposed,
                               starts, sockets, deletes, events, received, calls>>
       ]_vars

\* data paused the process, no acknowledgement was ever made, and the count
\* is 0 and the process not paused: a clear did it
C22_Witness ==
    /\ \E i \in 1..Len(events) : events[i].type = "data" /\ events[i].paused
    /\ calls.lastAck = <<>>
    /\ unacknowledgedCharCount = 0
    /\ ~isPtyPaused

\* C25: while the process is not paused the count is at most the high
\* watermark, and while it is paused the count is at least the low
\* watermark; so it is at each moment an event is fired.
C25_WatermarkBounds ==
    /\ ~isPtyPaused => unacknowledgedCharCount <= HighWatermarkChars
    /\ isPtyPaused => unacknowledgedCharCount >= LowWatermarkChars
    /\ \A i \in 1..Len(events) :
          /\ ~events[i].paused => events[i].count <= HighWatermarkChars
          /\ events[i].paused => events[i].count >= LowWatermarkChars

\* an acknowledgement left a paused process exactly at the low watermark,
\* still paused
C25_Witness ==
    /\ isPtyPaused
    /\ unacknowledgedCharCount = LowWatermarkChars
    /\ calls.lastAck # <<>>
    /\ calls.lastAck[1].charCount > 0
    /\ calls.lastAck[1].before - calls.lastAck[1].charCount = LowWatermarkChars

\* the flow-control fields just before the i-th event of the step is fired
CountBefore(i) == IF i = 1 THEN unacknowledgedCharCount ELSE Fired[i - 1].count
PausedBefore(i) == IF i = 1 THEN isPtyPaused ELSE Fired[i - 1].paused

\* C26: in the callback of a chunk, the count has grown by the length of
\* a frame's text, and the pause flag is set if the count then exceeds the
\* high watermark, when the frame's data event is fired; one data event is
\* fired for every text or binary frame of the chunk, paused or not.
C26_CountedBeforeEmitted ==
    [][ IsDataStep
          => LET frames == ParseWebSocketFrames(received'[Len(received')].chunk) IN
             /\ \A i \in 1..Len(Fired) :
                   IF Fired[i].type = "data"
                   THEN /\ Fired[i].count = CountBefore(i) + Len(Fired[i].text)
                        /\ Fired[i].paused
                             = (PausedBefore(i) \/ Fired[i].count > HighWatermarkChars)
                   ELSE /\ Fired[i].count = CountBefore(i)
                        /\ Fired[i].paused = PausedBefore(i)
             /\ unacknowledgedCharCount' = CountBefore(Len(Fired) + 1)
             /\ isPtyPaused' = PausedBefore(Len(Fired) + 1)
             /\ Cardinality({ i \in 1..Len(Fired) : Fired[i].type = "data" })
                  = Cardinality({ x \in 1..Len(frames) : IsDataFrame(frames[x]) })
      ]_vars

\* a data event was fired while the process was already paused
C26_Witness ==
    \E i \in 2..Len(events) :
        /\ events[i].type = "data"
        /\ events[i].live
        /\ events[i - 1].paused
        /\ events[i].paused


(***************************************************************************)
(* Frames of other opcodes.                                                *)
(***************************************************************************)
\* the frame is neither text, binary nor close
IsOtherFrame(frame) == ~IsDataFrame(frame) /\ frame.opcode # CloseOpcode

\* C27: a frame that is neither text, binary nor close (continuation, ping,
\* pong or a reserved opcode) is decoded, and fires no data and no exit
\* event, writes nothing to the socket and changes neither the count, the
\* pause flag nor the exit code: the events of a chunk are those of its
\* text, binary and close frames, and a chunk of other frames only changes
\* nothing.
C27_OtherOpcodesIgnored ==
    [][ IsDataStep
          => LET frames == ParseWebSocketFrames(received'[Len(received')].chunk)
                 others == { x \in 1..Len(frames) : IsOtherFrame(frames[x]) }
             IN /\ \A i \in 1..Len(Fired) :
                      /\ Fired[i].idx \in (1..Len(frames)) \ others
                      /\ (Fired[i].type = "data") = IsDataFrame(frames[Fired[i].idx])
                      /\ (Fired[i].type = "exit")
                           = (frames[Fired[i].idx].opcode = CloseOpcode)
                /\ Len(Fired) = Len(frames) - Cardinality(others)
                /\ sockets' = sockets
                /\ socket' = socket
                /\ (\A x \in 1..Len(frames) : ~IsDataFrame(frames[x]))
                     => /\ unacknowledgedCharCount' = unacknowledgedCharCount
                        /\ isPtyPaused' = isPtyPaused
                /\ (\A x \in 1..Len(frames) : frames[x].opcode # CloseOpcode)
                     => exitCode' = exitCode
                /\ others = 1..Len(frames)
                     => UNCHANGED <<cmuxSessionId, socket, exitCode, cols, rows,
                                    isPtyPaused, unacknowledgedCharCount, isDisposed,
                                    starts, sockets, deletes, events>>
      ]_vars

\* a chunk of a pong and a continuation frame with a payload was decoded
\* into its two frames while the process was paused, and a later chunk with
\* a ping around a text frame fired its one data event
C27_Witness ==
    /\ Len(received) = 2
    /\ LET frames == ParseWebSocketFrames(received[2].chunk) IN
          /\ Len(frames) = 2
          /\ frames[1].opcode = 10
          /\ frames[2].opcode = 0
          /\ frames[2].payload = <<101>>
    /\ Len(ParseWebSocketFrames(received[1].chunk)) = 3
    /\ Len(events) = 2
    /\ events[2].type = "data"
    /\ events[2].idx = 2
    /\ isPtyPaused
    /\ unacknowledgedCharCount = 4
    /\ \A s \in 1..Len(sockets) : sockets[s].state = "open"


(***************************************************************************)
(* Teardown while start is in flight.                                      *)
(***************************************************************************)
\* C23: once the instance is disposed, by shutdown or dispose, also while
\* start waits for the create response or the upgrade handshake, no socket
\* is open and the instance holds none, and no ready event fired after the
\* shutdown's exit is delivered.
C23_ClosedAfterDisposal ==
    isDisposed
      => /\ OpenSockets = {}
         /\ socket = 0
         /\ \A i \in 1..Len(events) : \A j \in (i + 1)..Len(events) :
               events[i].by = "shutdown" /\ events[j].type = "ready" => ~events[j].live


\* C24: when shutdown(true) has run while the create request was
\* outstanding, a DELETE for the id is issued when the create request
\* returns it.
C24_CreatedSessionDeleted ==
    [][ \A k \in 1..Len(starts) :
          /\ starts[k].pc = "creating"
          /\ \E i \in 1..Len(events) : events[i].by = "shutdown"
          /\ starts'[k].pc # "creating"
          /\ cmuxSessionId' = CreatedId
          => \E d \in 1..Len(deletes') : deletes'[d].id = CreatedId
      ]_vars


(***************************************************************************)
(* Chunks that end inside a frame.                                         *)
(***************************************************************************)
\* C21: of a chunk made of complete frames and the beginning of one more
\* (too short for the header, the extended length, the mask key or the
\* payload) the decoder returns the complete frames, in order, and nothing
\* for the rest; one complete frame followed by fewer than 2 bytes decodes
\* to that one frame.
C21_CompleteFramesOnly ==
    codec.stage = "decoded"
      => /\ codec.frames = codec.complete
         /\ Len(codec.complete) = 1 /\ Len(codec.tail) < 2 => Len(codec.frames) = 1

\* two frames were decoded from a chunk that ends inside the payload of a
\* third, masked one
C21_Witness ==
    /\ codec.stage = "decoded"
    /\ Len(codec.frames) = 2
    /\ codec.frames[1].payload = <<7, 8, 9>>
    /\ codec.frames[2].opcode = 9
    /\ codec.tail = <<130, 130, 1, 2, 3, 4, 99>>


(***************************************************************************)
(* The pseudo-PID.                                                         *)
(***************************************************************************)
RECURSIVE RollingHash31(_, _, _, _)
\* h := 31 * h + code for every character from the i-th on, modulo 2^32,
\* as the halves <<h \div 2^16, h % 2^16>>
RollingHash31(id, i, hi, lo) ==
    IF i > Len(id) THEN <<hi, lo>>
    ELSE LET l == (31 * lo) + id[i]
             h == (31 * hi) + (l \div 65536)
         IN RollingHash31(id, i + 1, h % 65536, l % 65536)

\* C28: the pseudo-PID of a session id is the absolute value of the
\* rolling hash h := 31 * h + code, cut to a signed 32-bit integer after
\* every character; it is never negative, and 0 for the empty id.
C28_PseudoPidIsAbsOfRollingHash ==
    codec.stage = "hashed"
      => LET w == RollingHash31(codec.data, 1, 0, 0)
             signed == IF w[1] >= 32768 THEN ((w[1] - 65536) * 65536) + w[2]
                       ELSE (w[1] * 65536) + w[2]
         IN /\ codec.pid = IF signed < 0 THEN 0 - signed ELSE signed
            /\ codec.pid >= 0
            /\ codec.data = <<>> => codec.pid = 0
            /\ codec.pid = HashSessionId(codec.data)

\* "ffffff", whose hash is -1277454784 on 32 bits, got the pseudo-PID
\* 1277454784
C28_Witness ==
    /\ codec.stage = "hashed"
    /\ codec.data = <<102, 102, 102, 102, 102, 102>>
    /\ HashSessionIdWithoutAbs(codec.data) = 0 - 1277454784
    /\ codec.pid = 1277454784

====
